---- MODULE Spec2Model ----
(***************************************************************************)
(* Model of flux-connect's connect() decorator (src/unnamed/part_000): one *)
(* Connect instance, the data sources it can be given, and the host        *)
(* framework's lifecycle calls (constructor, render, componentDidMount,    *)
(* componentWillReceiveProps, shouldComponentUpdate, componentWillUpdate,  *)
(* componentWillUnmount) that drive it.                                    *)
(*                                                                         *)
(* Every method of the class is an operator from a "world" record (the     *)
(* instance `this`, the data sources, the module-level errorObject, the    *)
(* framework's pending setState, and an observation log of the running     *)
(* lifecycle call) to a result record [w, ret, err]: the world after the   *)
(* call, the returned value and the exception that escaped, if any.        *)
(***************************************************************************)
EXTENDS Integers, Sequences, FiniteSets, TLC

\* ------------------------------------------------------------------ bounds
MaxRef == 3        \* state snapshots (object references) are 0..MaxRef
MaxVersion == 1    \* hot reloads (connect() re-evaluations) of one behaviour

\* ------------------------------------------------------------ JS values
None == <<>>                 \* null / undefined
Some(v) == <<v>>
Absent == 0 - 1              \* a key an object does not have

\* A state snapshot is an object; `ref` is its identity (===), `count` the
\* portion of it the mappers read, `throws` whether reading it makes the
\* user's mapper throw.
StateRefs == 0..MaxRef
StateOf(r) == [ref |-> r, count |-> r % 2, throws |-> (r = MaxRef /\ r > 0)]
States == {StateOf(r) : r \in StateRefs}

\* Props objects: the keys a prop object may carry.
Keys == {"count", "sel", "x", "flux"}
KeysOf(o) == {k \in Keys : o[k] # Absent}
Obj(count, sel, x, flux) == [count |-> count, sel |-> sel, x |-> x, flux |-> flux]

\* The two data sources an instance can be given.
PropFlux == 1                \* passed as the explicit prop `flux`
ContextFlux == 2             \* found in context.flux (installed by Provider)
StoreIds == {PropFlux, ContextFlux}

\* The own props a parent passes: `x` always, `count` (which collides with a
\* derived key) sometimes, `flux` as given at construction.
OwnPropsFor(flux) == {Obj(Absent, Absent, 0, flux), Obj(9, Absent, 1, flux)}

shallowEqual(a, b) ==
    /\ KeysOf(a) = KeysOf(b)
    /\ \A k \in KeysOf(a) : a[k] = b[k]

\* ------------------------------------------------------- user functions
\* A JS function value: its declared arity (Function.length), whether calling
\* it returns another function (factory mode) and the arity of that function.
Fn(name, length, returnsFn, innerLength) ==
    [name |-> name, length |-> length, returnsFn |-> returnsFn, innerLength |-> innerLength]
InnerOf(fn) == Fn("inner", fn.innerLength, FALSE, 0)

Mappers ==
    { None,                                           \* connect() without a mapper
      Some(Fn("mapStateToProps", 1, FALSE, 0)),       \* (state) => ({count})
      Some(Fn("mapStateToProps", 2, FALSE, 0)),       \* (state, props) => ({count, sel})
      Some(Fn("mapStateToProps", 0, FALSE, 0)),       \* (...args) => ({count, sel})
      Some(Fn("mapStateToProps", 2, TRUE, 1)),        \* (state, props) => (state) => ...
      Some(Fn("mapStateToProps", 1, TRUE, 2)) }       \* (state) => (state, props) => ...

MapperError == "MapperError"
TypeError == "TypeError"
InvariantViolation == "Invariant Violation"

\* ---------------------------------------------------------------- state
VARIABLES
    pure, withRef, mapStateToProps, \* connect()'s closure (lines 43-46)
    version,                        \* the closure's version (line 49); hot reload renews it
    context,                        \* context.flux of the instance: None or Some(ContextFlux)
    flux,                           \* the `flux` prop the parent passes: Absent or PropFlux
    stores,                         \* data source id -> [state, listeners]
    this,                           \* the Connect instance's fields
    errorObject,                    \* module-level errorObject.value (line 19)
    phase,                          \* where the framework has the instance
    pendingState,                   \* setState payload not yet applied
    counts,                         \* last element made; outer mapper / on / off calls so far
    quiet,                          \* history: see StepQuiet
    wasQuiet,                       \* history: the last step was taken with quiet and was quiet
    log                             \* observation of the last lifecycle call

vars == <<pure, withRef, mapStateToProps, version, context, flux, stores, this,
          errorObject, phase, pendingState, counts, quiet, wasQuiet, log>>

\* The model is of a development build (line 16): a production build behaves
\* as this one does when no hot reload happens.
NODE_ENV == "development"

shouldSubscribe == mapStateToProps # None          \* line 45

\* What the last lifecycle call did: the user functions it called, the error a
\* user function threw, the error that escaped the call, how its render pass
\* ended ("new", "cached", "threw"), whether it called setState, and whether
\* clearCache ran with the subscription active; for a change event, the data
\* source that emitted it.
NoLog == [op |-> "none", source |-> 0, calls |-> <<>>, thrown |-> None, err |-> None,
          render |-> "none", setState |-> FALSE, clearCache |-> "none"]
Begin(w, op) == [w EXCEPT !.log = [NoLog EXCEPT !.op = op]]

\* The world the methods act on.
World == [this |-> this, stores |-> stores, errorObject |-> errorObject,
          pendingState |-> pendingState, counts |-> counts, log |-> log]

Result(w, ret, err) == [w |-> w, ret |-> ret, err |-> err]
Undefined == [type |-> "undefined", fn |-> Fn("", 0, FALSE, 0), obj |-> Obj(Absent, Absent, Absent, Absent)]
FunctionValue(fn) == [Undefined EXCEPT !.type = "function", !.fn = fn]
ObjectValue(obj) == [Undefined EXCEPT !.type = "object", !.obj = obj]

Saturate(n) == IF n >= 2 THEN 2 ELSE n + 1

BlankInstance ==
    [ version |-> 0, store |-> 0, storeState |-> StateOf(0),
      props |-> Obj(Absent, Absent, Absent, Absent),
      doStatePropsDependOnOwnProps |-> FALSE, finalMapStateToProps |-> None,
      haveOwnPropsChanged |-> FALSE, hasStoreStateChanged |-> FALSE,
      haveStatePropsBeenPrecalculated |-> FALSE, renderedElement |-> None,
      stateProps |-> None, statePropsPrecalculationError |-> None,
      unsubscribe |-> None ]

\* ------------------------------------------------------ the data source
getState(w, store) == w.stores[store].state

\* A call of a user function. The mappers of this model read state.count and,
\* when their arity is not 1, props.x; they throw on a state marked `throws`.
\* A factory reads the state and returns its inner mapper.
Invoke(w, fnOpt, state, propsOpt) ==
    IF fnOpt = None
    THEN Result(w, Undefined, Some(TypeError))      \* undefined is not a function
    ELSE LET fn == fnOpt[1]
             w1 == [w EXCEPT
                      !.log.calls = Append(@, [fn |-> fn.name, withProps |-> propsOpt # None]),
                      !.counts.outer = IF fn.name = "mapStateToProps" THEN Saturate(@) ELSE @]
             threw(e) == Result([w1 EXCEPT !.log.thrown = Some(e), !.counts.threw = TRUE],
                                Undefined, Some(e))
         IN  IF state.throws THEN threw(MapperError)
             ELSE IF fn.returnsFn THEN Result(w1, FunctionValue(InnerOf(fn)), None)
             ELSE IF fn.length = 1
                  THEN Result(w1, ObjectValue(Obj(state.count, Absent, Absent, Absent)), None)
             ELSE IF propsOpt = None
                  THEN threw(TypeError)                        \* props.x of undefined
             ELSE Result(w1, ObjectValue(Obj(state.count, propsOpt[1].x, Absent, Absent)), None)

\* -------------------------------------------------------------- tryCatch
\* tryCatch(fn, ctx), given the outcome r of fn.apply(ctx).
\* tryCatch letting the exception through.
tryCatch_Rethrows(r) == r

tryCatch(r) ==
    IF r.err = None THEN r
    ELSE Result([r.w EXCEPT !.errorObject = r.err], "errorObject", None)

\* ------------------------------------------------------- Connect methods
clearCache(w) ==
    [w EXCEPT !.this.stateProps = None,
              !.this.haveOwnPropsChanged = TRUE,
              !.this.hasStoreStateChanged = TRUE,
              !.this.haveStatePropsBeenPrecalculated = FALSE,
              !.this.statePropsPrecalculationError = None,
              !.this.renderedElement = None,
              !.this.finalMapStateToProps = None,
              !.log.clearCache = IF w.this.unsubscribe # None THEN "subscribed"
                                 ELSE "unsubscribed"]

\* constructor resolving context.flux || props.flux
constructor_ContextFirst(w, props, ctx) ==
    LET store == IF ctx # None THEN ctx ELSE IF props.flux # Absent THEN Some(props.flux) ELSE None
        w1 == [w EXCEPT !.this = [BlankInstance EXCEPT !.props = props, !.version = version]]
    IN  IF store = None
        THEN Result(w1, "undefined", Some(InvariantViolation))
        ELSE LET w2 == [w1 EXCEPT !.this.store = store[1]]
                 storeState == getState(w2, w2.this.store)
             IN  Result(clearCache([w2 EXCEPT !.this.storeState = storeState]),
                        "undefined", None)

\* constructor(props, context)
constructor(w, props, ctx) ==
    LET store == IF props.flux # Absent THEN Some(props.flux) ELSE ctx
        w1 == [w EXCEPT !.this = [BlankInstance EXCEPT !.props = props, !.version = version]]
    IN  IF store = None
        THEN Result(w1, "undefined", Some(InvariantViolation))
        ELSE LET w2 == [w1 EXCEPT !.this.store = store[1]]
                 storeState == getState(w2, w2.this.store)
             IN  Result(clearCache([w2 EXCEPT !.this.storeState = storeState]),
                        "undefined", None)

RECURSIVE computeStateProps(_, _, _)
RECURSIVE configureFinalMapState(_, _, _)

\* configureFinalMapState keeping the user's mapper when it returned a function.
configureFinalMapState_KeepsOuter(w, store, props) ==
    LET configure(mappedState) ==
            IF mappedState.err # None THEN mappedState
            ELSE LET isFactory == mappedState.ret.type = "function"
                     final == mapStateToProps[1]
                     w1 == [mappedState.w EXCEPT
                              !.this.finalMapStateToProps = Some(final),
                              !.this.doStatePropsDependOnOwnProps = (final.length # 1)]
                 IN  IF isFactory THEN computeStateProps(w1, store, props)
                     ELSE Result(w1, mappedState.ret, None)
    IN  configure(Invoke(w, mapStateToProps, getState(w, store), Some(props)))

\* configureFinalMapState reading the length of the user's mapper in factory
\* mode too.
configureFinalMapState_OuterArity(w, store, props) ==
    LET configure(mappedState) ==
            IF mappedState.err # None THEN mappedState
            ELSE LET isFactory == mappedState.ret.type = "function"
                     final == IF isFactory THEN mappedState.ret.fn ELSE mapStateToProps[1]
                     w1 == [mappedState.w EXCEPT
                              !.this.finalMapStateToProps = Some(final),
                              !.this.doStatePropsDependOnOwnProps = (mapStateToProps[1].length # 1)]
                 IN  IF isFactory THEN computeStateProps(w1, store, props)
                     ELSE Result(w1, mappedState.ret, None)
    IN  configure(Invoke(w, mapStateToProps, getState(w, store), Some(props)))

configureFinalMapState(w, store, props) ==
    LET configure(mappedState) ==
            IF mappedState.err # None THEN mappedState
            ELSE LET isFactory == mappedState.ret.type = "function"
                     final == IF isFactory THEN mappedState.ret.fn ELSE mapStateToProps[1]
                     w1 == [mappedState.w EXCEPT
                              !.this.finalMapStateToProps = Some(final),
                              !.this.doStatePropsDependOnOwnProps = (final.length # 1)]
                 IN  IF isFactory THEN computeStateProps(w1, store, props)
                     ELSE Result(w1, mappedState.ret, None)
    IN  configure(Invoke(w, mapStateToProps, getState(w, store), Some(props)))

computeStateProps(w, store, props) ==
    LET finalMapStateToProps == w.this.finalMapStateToProps
    IN  IF finalMapStateToProps = None
        THEN configureFinalMapState(w, store, props)
        ELSE LET state == getState(w, store)
             IN  IF w.this.doStatePropsDependOnOwnProps
                 THEN Invoke(w, finalMapStateToProps, state, Some(props))
                 ELSE Invoke(w, finalMapStateToProps, state, None)

\* updateStatePropsIfNeeded without the comparison with the cached stateProps.
updateStatePropsIfNeeded_NoCompare(w) ==
    LET update(nextStateProps) ==
            IF nextStateProps.err # None THEN nextStateProps
            ELSE Result([nextStateProps.w EXCEPT
                           !.this.stateProps = Some(nextStateProps.ret.obj)],
                        "true", None)
    IN  update(computeStateProps(w, w.this.store, w.this.props))

updateStatePropsIfNeeded(w) ==
    LET update(nextStateProps) ==
            IF nextStateProps.err # None THEN nextStateProps
            ELSE IF nextStateProps.w.this.stateProps # None
                    /\ shallowEqual(nextStateProps.ret.obj, nextStateProps.w.this.stateProps[1])
                 THEN Result(nextStateProps.w, "false", None)
                 ELSE Result([nextStateProps.w EXCEPT
                                !.this.stateProps = Some(nextStateProps.ret.obj)],
                             "true", None)
    IN  update(computeStateProps(w, w.this.store, w.this.props))

\* this.setState({storeState}): the framework queues the payload; a component
\* that is not mounted any more ignores it.
setState(w, storeState) ==
    [w EXCEPT !.pendingState = Some(storeState), !.log.setState = TRUE]

\* handleChange without the early return on unchanged derived props.
handleChange_NoEarlyReturn(w) ==
    LET storeState == getState(w, w.this.store)
        prevStoreState == w.this.storeState
        precalculated(haveStatePropsChanged) ==
            LET w1 == haveStatePropsChanged.w
                w2 == IF haveStatePropsChanged.ret = "errorObject"
                      THEN [w1 EXCEPT !.this.statePropsPrecalculationError = w1.errorObject]
                      ELSE w1
                w3 == [w2 EXCEPT !.this.haveStatePropsBeenPrecalculated = TRUE,
                                 !.this.hasStoreStateChanged = TRUE]
            IN  IF haveStatePropsChanged.err # None THEN haveStatePropsChanged
                ELSE Result(setState(w3, storeState), "undefined", None)
    IN  IF w.this.unsubscribe = None THEN Result(w, "undefined", None)
        ELSE IF pure /\ prevStoreState.ref = storeState.ref THEN Result(w, "undefined", None)
        ELSE IF pure /\ ~w.this.doStatePropsDependOnOwnProps
        THEN precalculated(tryCatch(updateStatePropsIfNeeded(w)))
        ELSE Result(setState([w EXCEPT !.this.hasStoreStateChanged = TRUE], storeState),
                    "undefined", None)

\* handleChange without the test of this.unsubscribe.
handleChange_NoSubscriptionTest(w) ==
    LET storeState == getState(w, w.this.store)
        prevStoreState == w.this.storeState
        precalculated(haveStatePropsChanged) ==
            LET w1 == haveStatePropsChanged.w
                w2 == IF haveStatePropsChanged.ret = "errorObject"
                      THEN [w1 EXCEPT !.this.statePropsPrecalculationError = w1.errorObject]
                      ELSE w1
                w3 == [w2 EXCEPT !.this.haveStatePropsBeenPrecalculated = TRUE,
                                 !.this.hasStoreStateChanged = TRUE]
            IN  IF haveStatePropsChanged.err # None THEN haveStatePropsChanged
                ELSE IF haveStatePropsChanged.ret = "false" THEN Result(w1, "undefined", None)
                ELSE Result(setState(w3, storeState), "undefined", None)
    IN  IF pure /\ prevStoreState.ref = storeState.ref THEN Result(w, "undefined", None)
        ELSE IF pure /\ ~w.this.doStatePropsDependOnOwnProps
        THEN precalculated(tryCatch(updateStatePropsIfNeeded(w)))
        ELSE Result(setState([w EXCEPT !.this.hasStoreStateChanged = TRUE], storeState),
                    "undefined", None)

handleChange(w) ==
    LET storeState == getState(w, w.this.store)
        prevStoreState == w.this.storeState
        precalculated(haveStatePropsChanged) ==
            LET w1 == haveStatePropsChanged.w
                w2 == IF haveStatePropsChanged.ret = "errorObject"
                      THEN [w1 EXCEPT !.this.statePropsPrecalculationError = w1.errorObject]
                      ELSE w1
                w3 == [w2 EXCEPT !.this.haveStatePropsBeenPrecalculated = TRUE,
                                 !.this.hasStoreStateChanged = TRUE]
            IN  IF haveStatePropsChanged.err # None THEN haveStatePropsChanged
                ELSE IF haveStatePropsChanged.ret = "false" THEN Result(w1, "undefined", None)
                ELSE Result(setState(w3, storeState), "undefined", None)
    IN  IF w.this.unsubscribe = None THEN Result(w, "undefined", None)
        ELSE IF pure /\ prevStoreState.ref = storeState.ref THEN Result(w, "undefined", None)
        ELSE IF pure /\ ~w.this.doStatePropsDependOnOwnProps
        THEN precalculated(tryCatch(updateStatePropsIfNeeded(w)))
        ELSE Result(setState([w EXCEPT !.this.hasStoreStateChanged = TRUE], storeState),
                    "undefined", None)

\* trySubscribe without the test for an existing subscription.
trySubscribe_Unguarded(w) ==
    IF shouldSubscribe
    THEN LET handleChangeBound == w.counts.on + 1
             w1 == [w EXCEPT
                      !.stores[w.this.store].listeners = @ \cup {handleChangeBound},
                      !.counts.on = handleChangeBound,
                      !.this.unsubscribe = Some(handleChangeBound)]
         IN  handleChange(w1)
    ELSE Result(w, "undefined", None)

\* trySubscribe without the call of handleChange.
trySubscribe_NoInitialChange(w) ==
    IF shouldSubscribe /\ w.this.unsubscribe = None
    THEN LET handleChangeBound == w.counts.on + 1
         IN  Result([w EXCEPT
                       !.stores[w.this.store].listeners = @ \cup {handleChangeBound},
                       !.counts.on = handleChangeBound,
                       !.this.unsubscribe = Some(handleChangeBound)],
                    "undefined", None)
    ELSE Result(w, "undefined", None)

trySubscribe(w) ==
    IF shouldSubscribe /\ w.this.unsubscribe = None
    THEN LET handleChangeBound == w.counts.on + 1
             w1 == [w EXCEPT
                      !.stores[w.this.store].listeners = @ \cup {handleChangeBound},
                      !.counts.on = handleChangeBound,
                      !.this.unsubscribe = Some(handleChangeBound)]
         IN  handleChange(w1)
    ELSE Result(w, "undefined", None)

tryUnsubscribe(w) ==
    IF w.this.unsubscribe # None
    THEN [w EXCEPT !.stores[w.this.store].listeners = @ \ {w.this.unsubscribe[1]},
                   !.counts.off = Saturate(@),
                   !.this.unsubscribe = None]
    ELSE w

isSubscribed(w) == w.this.unsubscribe # None

componentDidMount(w) == trySubscribe(w)

\* componentWillReceiveProps comparing the props in non-pure mode too.
componentWillReceiveProps_AlwaysCompares(w, nextProps) ==
    IF ~shallowEqual(nextProps, w.this.props)
    THEN [w EXCEPT !.this.haveOwnPropsChanged = TRUE]
    ELSE w

componentWillReceiveProps(w, nextProps) ==
    IF ~pure \/ ~shallowEqual(nextProps, w.this.props)
    THEN [w EXCEPT !.this.haveOwnPropsChanged = TRUE]
    ELSE w

\* componentWillUnmount clearing the cache before unsubscribing.
componentWillUnmount_ClearsFirst(w) == tryUnsubscribe(clearCache(w))

componentWillUnmount(w) == clearCache(tryUnsubscribe(w))

\* shouldComponentUpdate asking for every update.
shouldComponentUpdate_Always(w) == TRUE

shouldComponentUpdate(w) ==
    ~pure \/ w.this.haveOwnPropsChanged \/ w.this.hasStoreStateChanged

\* getWrappedInstance without the invariant.
getWrappedInstance_Unchecked(w) == Result(w, "wrappedInstance", None)

getWrappedInstance(w) ==
    IF ~withRef THEN Result(w, "undefined", Some(InvariantViolation))
    ELSE Result(w, "wrappedInstance", None)

\* {...this.props, ...this.stateProps}
mergedProps_DerivedWins(stateProps, props) ==
    [k \in Keys |-> IF stateProps # None /\ stateProps[1][k] # Absent THEN stateProps[1][k]
                    ELSE props[k]]

\* {...this.stateProps, ...this.props}
mergedProps(stateProps, props) ==
    [k \in Keys |-> IF props[k] # Absent THEN props[k]
                    ELSE IF stateProps = None THEN Absent ELSE stateProps[1][k]]

\* React.createElement returns a new object: its identity differs from that of
\* the element made before it, the only other element anything still holds.
\* The element also records the derived props it was made from.
createElement(w, props) ==
    LET id == IF w.counts.created = 1 THEN 2 ELSE 1
    IN  [w EXCEPT !.counts.created = id,
                  !.this.renderedElement =
                      Some([id |-> id, props |-> props,
                            ref |-> IF withRef THEN "wrappedInstance" ELSE "",
                            stateProps |-> w.this.stateProps]),
                  !.log.render = "new"]

\* render without the reuse of the stateProps handleChange precalculated.
render_IgnoresPrecalculated(w) ==
    LET haveOwnPropsChanged == w.this.haveOwnPropsChanged
        hasStoreStateChanged == w.this.hasStoreStateChanged
        statePropsPrecalculationError == w.this.statePropsPrecalculationError
        renderedElement == w.this.renderedElement
        w0 == [w EXCEPT !.this.haveOwnPropsChanged = FALSE,
                        !.this.hasStoreStateChanged = FALSE,
                        !.this.haveStatePropsBeenPrecalculated = FALSE,
                        !.this.statePropsPrecalculationError = None]
        shouldUpdateStateProps ==
            IF pure /\ renderedElement # None
            THEN hasStoreStateChanged
                 \/ (haveOwnPropsChanged /\ w0.this.doStatePropsDependOnOwnProps)
            ELSE TRUE
        returned(w2) == Result(w2, w2.this.renderedElement, None)
        memoized(haveStatePropsChanged) ==
            LET w1 == haveStatePropsChanged.w
            IN  IF haveStatePropsChanged.err # None
                THEN Result([w1 EXCEPT !.log.render = "threw"], None, haveStatePropsChanged.err)
                ELSE IF haveStatePropsChanged.ret = "false" /\ ~haveOwnPropsChanged
                        /\ renderedElement # None
                THEN Result([w1 EXCEPT !.log.render = "cached"], renderedElement, None)
                ELSE returned(createElement(w1, mergedProps(w1.this.stateProps, w1.this.props)))
    IN  IF statePropsPrecalculationError # None
        THEN Result([w0 EXCEPT !.log.render = "threw"], None, statePropsPrecalculationError)
        ELSE IF shouldUpdateStateProps THEN memoized(updateStatePropsIfNeeded(w0))
        ELSE memoized(Result(w0, "false", None))

\* render leaving own-props-changed and state-changed as it found them.
render_KeepsChangedFlags(w) ==
    LET haveOwnPropsChanged == w.this.haveOwnPropsChanged
        hasStoreStateChanged == w.this.hasStoreStateChanged
        haveStatePropsBeenPrecalculated == w.this.haveStatePropsBeenPrecalculated
        statePropsPrecalculationError == w.this.statePropsPrecalculationError
        renderedElement == w.this.renderedElement
        w0 == [w EXCEPT !.this.haveStatePropsBeenPrecalculated = FALSE,
                        !.this.statePropsPrecalculationError = None]
        shouldUpdateStateProps ==
            IF pure /\ renderedElement # None
            THEN hasStoreStateChanged
                 \/ (haveOwnPropsChanged /\ w0.this.doStatePropsDependOnOwnProps)
            ELSE TRUE
        returned(w2) == Result(w2, w2.this.renderedElement, None)
        memoized(haveStatePropsChanged) ==
            LET w1 == haveStatePropsChanged.w
            IN  IF haveStatePropsChanged.err # None
                THEN Result([w1 EXCEPT !.log.render = "threw"], None, haveStatePropsChanged.err)
                ELSE IF haveStatePropsChanged.ret = "false" /\ ~haveOwnPropsChanged
                        /\ renderedElement # None
                THEN Result([w1 EXCEPT !.log.render = "cached"], renderedElement, None)
                ELSE returned(createElement(w1, mergedProps(w1.this.stateProps, w1.this.props)))
    IN  IF statePropsPrecalculationError # None
        THEN Result([w0 EXCEPT !.log.render = "threw"], None, statePropsPrecalculationError)
        ELSE IF haveStatePropsBeenPrecalculated THEN memoized(Result(w0, "true", None))
        ELSE IF shouldUpdateStateProps THEN memoized(updateStatePropsIfNeeded(w0))
        ELSE memoized(Result(w0, "false", None))

render(w) ==
    LET haveOwnPropsChanged == w.this.haveOwnPropsChanged
        hasStoreStateChanged == w.this.hasStoreStateChanged
        haveStatePropsBeenPrecalculated == w.this.haveStatePropsBeenPrecalculated
        statePropsPrecalculationError == w.this.statePropsPrecalculationError
        renderedElement == w.this.renderedElement
        w0 == [w EXCEPT !.this.haveOwnPropsChanged = FALSE,
                        !.this.hasStoreStateChanged = FALSE,
                        !.this.haveStatePropsBeenPrecalculated = FALSE,
                        !.this.statePropsPrecalculationError = None]
        shouldUpdateStateProps ==
            IF pure /\ renderedElement # None
            THEN hasStoreStateChanged
                 \/ (haveOwnPropsChanged /\ w0.this.doStatePropsDependOnOwnProps)
            ELSE TRUE
        returned(w2) == Result(w2, w2.this.renderedElement, None)
        memoized(haveStatePropsChanged) ==
            LET w1 == haveStatePropsChanged.w
            IN  IF haveStatePropsChanged.err # None
                THEN Result([w1 EXCEPT !.log.render = "threw"], None, haveStatePropsChanged.err)
                ELSE IF haveStatePropsChanged.ret = "false" /\ ~haveOwnPropsChanged
                        /\ renderedElement # None
                THEN Result([w1 EXCEPT !.log.render = "cached"], renderedElement, None)
                ELSE returned(createElement(w1, mergedProps(w1.this.stateProps, w1.this.props)))
    IN  IF statePropsPrecalculationError # None
        THEN Result([w0 EXCEPT !.log.render = "threw"], None, statePropsPrecalculationError)
        ELSE IF haveStatePropsBeenPrecalculated THEN memoized(Result(w0, "true", None))
        ELSE IF shouldUpdateStateProps THEN memoized(updateStatePropsIfNeeded(w0))
        ELSE memoized(Result(w0, "false", None))

\* componentWillUpdate without the clearCache.
componentWillUpdate_KeepsCache(w) ==
    IF NODE_ENV = "production" THEN Result(w, "undefined", None)
    ELSE IF w.this.version = version THEN Result(w, "undefined", None)
    ELSE trySubscribe([w EXCEPT !.this.version = version])

\* Connect.prototype.componentWillUpdate, defined outside production builds.
componentWillUpdate(w) ==
    LET reloaded(r) ==
            IF r.err # None THEN r ELSE Result(clearCache(r.w), "undefined", None)
    IN  IF NODE_ENV = "production" THEN Result(w, "undefined", None)
        ELSE IF w.this.version = version THEN Result(w, "undefined", None)
        ELSE reloaded(trySubscribe([w EXCEPT !.this.version = version]))

\* ------------------------------------------------- the host framework
\* The framework's update of a mounted component: the queued setState payload
\* becomes this.state, shouldComponentUpdate decides, componentWillUpdate runs,
\* props and state are assigned, render runs.
updateComponent(w, nextProps) ==
    LET nextState == IF w.pendingState = None THEN w.this.storeState ELSE w.pendingState[1]
        w1 == [w EXCEPT !.pendingState = None]
        assign(x) == [x EXCEPT !.this.props = nextProps, !.this.storeState = nextState]
        perform(u) == IF u.err # None THEN u ELSE render(assign(u.w))
    IN  IF ~shouldComponentUpdate(w1) THEN Result(assign(w1), None, None)
        ELSE perform(componentWillUpdate(w1))

\* emitter.emit('change'): every registered listener is called in turn.
RECURSIVE emit(_, _)
emit(w, listeners) ==
    LET rest(r) ==
            IF r.err # None THEN r
            ELSE emit(r.w, listeners \ {CHOOSE x \in listeners : TRUE})
    IN  IF listeners = {} THEN Result(w, "undefined", None)
        ELSE rest(handleChange(w))

Commit(r) ==
    /\ this' = r.w.this
    /\ stores' = r.w.stores
    /\ errorObject' = r.w.errorObject
    /\ pendingState' = r.w.pendingState
    /\ counts' = r.w.counts
    /\ log' = [r.w.log EXCEPT !.err = r.err]

Closure == <<pure, withRef, mapStateToProps, context, flux>>

\* --------------------------------------------------------------- actions
\* The derived props the user's established mapper gives for a state and own
\* props: the reference the connector's caching is judged against.
DerivedProps(state, props) ==
    LET fn == IF mapStateToProps[1].returnsFn THEN InnerOf(mapStateToProps[1])
              ELSE mapStateToProps[1]
    IN  Invoke(World, Some(fn), state, Some(props)).ret.obj

\* A step that leaves what the wrapped component should show as it is: a
\* change event whose new state gives derived props shallow-equal to the
\* cached ones, an update with shallow-equal own props, or the framework
\* running what is already queued.
StepQuiet ==
    LET newState == stores'[this.store].state
    IN  CASE log'.op = "change" ->
                 /\ mapStateToProps # None
                 /\ this.stateProps # None
                 /\ ~newState.throws
                 /\ shallowEqual(DerivedProps(newState, this.props), this.stateProps[1])
          [] log'.op = "receiveProps" -> shallowEqual(this'.props, this.props)
          [] log'.op \in {"componentDidMount", "flushState", "getWrappedInstance"} -> TRUE
          [] OTHER -> FALSE

\* quiet: a render pass has returned and every step since was quiet.
History ==
    /\ wasQuiet' = (quiet /\ StepQuiet)
    /\ quiet' = IF log'.render \in {"new", "cached"} THEN TRUE ELSE quiet /\ StepQuiet

\* The connect() calls and mount points explored. Every mapper is explored in
\* pure and non-pure mode under a Provider; the options that touch neither
\* the mapper nor the change handling (withRef, where the data source comes
\* from) are explored in full with the state-only mapper in pure mode.
Configurations ==
    {[pure |-> p, withRef |-> FALSE, mapStateToProps |-> m,
      context |-> Some(ContextFlux), flux |-> Absent] :
        p \in BOOLEAN, m \in Mappers}
    \cup
    {[pure |-> TRUE, withRef |-> r, mapStateToProps |-> Some(Fn("mapStateToProps", 1, FALSE, 0)),
      context |-> c, flux |-> f] :
        r \in BOOLEAN, c \in {None, Some(ContextFlux)}, f \in {Absent, PropFlux}}

Init ==
    /\ \E c \in Configurations :
         /\ pure = c.pure
         /\ withRef = c.withRef
         /\ mapStateToProps = c.mapStateToProps
         /\ context = c.context
         /\ flux = c.flux
    /\ version = 0
    /\ stores = [id \in StoreIds |->
                   [state |-> StateOf(IF id = ContextFlux THEN 0 ELSE 1), listeners |-> {}]]
    /\ this = BlankInstance
    /\ errorObject = None
    /\ phase = "none"
    /\ pendingState = None
    /\ counts = [created |-> 0, outer |-> 0, on |-> 0, off |-> 0, threw |-> FALSE]
    /\ quiet = FALSE
    /\ wasQuiet = FALSE
    /\ log = NoLog

\* new Connect(props, context)
Construct ==
    /\ phase = "none"
    /\ \E props \in OwnPropsFor(flux) :
         LET constructed(r) ==
                 /\ Commit(r)
                 /\ phase' = IF r.err = None THEN "constructed" ELSE "failed"
         IN  constructed(constructor(Begin(World, "constructor"), props, context))
    /\ UNCHANGED <<Closure, version>>
    /\ History

\* The first render pass, before componentDidMount.
InitialRender ==
    /\ phase = "constructed"
    /\ LET rendered(r) ==
               /\ Commit(r)
               /\ phase' = IF r.err = None THEN "rendered" ELSE "failed"
       IN  rendered(render(Begin(World, "render")))
    /\ UNCHANGED <<Closure, version>>
    /\ History

Mount ==
    /\ phase = "rendered"
    /\ Commit(componentDidMount(Begin(World, "componentDidMount")))
    /\ phase' = "mounted"
    /\ UNCHANGED <<Closure, version>>
    /\ History

\* The data source `id` takes the state s and emits 'change'.
StoreChange ==
    /\ phase \notin {"none", "failed"}
    /\ \E id \in StoreIds : \E s \in States :
         \* a data source the instance does not use keeps its state here: it
         \* still emits
         /\ id # this.store => s = stores[id].state
         /\ LET w == [Begin(World, "change") EXCEPT !.stores[id].state = s, !.log.source = id]
            IN  Commit(emit(w, w.stores[id].listeners))
    /\ UNCHANGED <<Closure, version, phase>>
    /\ History

\* A change event reaching the instance's handler after it was removed from
\* the emitter (an emit that was already under way).
LateChange ==
    /\ phase = "unmounted"
    /\ counts.on > 0
    /\ Commit(handleChange(Begin(World, "lateChange")))
    /\ UNCHANGED <<Closure, version, phase>>
    /\ History

\* The parent re-renders and passes nextProps.
ReceiveProps ==
    /\ phase = "mounted"
    /\ \E nextProps \in OwnPropsFor(flux) :
         LET w == componentWillReceiveProps(Begin(World, "receiveProps"), nextProps)
         IN  Commit(updateComponent(w, nextProps))
    /\ UNCHANGED <<Closure, version, phase>>
    /\ History

\* The framework processes the queued setState.
FlushState ==
    /\ phase = "mounted"
    /\ pendingState # None
    /\ Commit(updateComponent(Begin(World, "flushState"), this.props))
    /\ UNCHANGED <<Closure, version, phase>>
    /\ History

\* The module is re-evaluated: connect() runs again and the mounted instance's
\* methods now close over the new version.
HotReload ==
    /\ NODE_ENV # "production"
    /\ phase = "mounted"
    /\ version < MaxVersion
    /\ version' = version + 1
    /\ log' = [NoLog EXCEPT !.op = "hotReload"]
    /\ UNCHANGED <<Closure, stores, this, errorObject, phase, pendingState, counts>>
    /\ History

Unmount ==
    /\ phase = "mounted"
    /\ LET w == componentWillUnmount(Begin(World, "componentWillUnmount"))
       IN  Commit(Result([w EXCEPT !.pendingState = None], "undefined", None))
    /\ phase' = "unmounted"
    /\ UNCHANGED <<Closure, version>>
    /\ History

GetWrappedInstance ==
    /\ phase \in {"rendered", "mounted"}
    /\ Commit(getWrappedInstance(Begin(World, "getWrappedInstance")))
    /\ UNCHANGED <<Closure, version, phase>>
    /\ History

Next ==
    \/ Construct
    \/ InitialRender
    \/ Mount
    \/ StoreChange
    \/ LateChange
    \/ ReceiveProps
    \/ FlushState
    \/ HotReload
    \/ Unmount
    \/ GetWrappedInstance

Spec == Init /\ [][Next]_vars

\* ---------------------------------------------------------------- claims

\* C1: in pure mode, once a render pass has returned, no step of a sequence of
\* change events whose new states give derived props shallow-equal to the
\* cached ones (own props shallow-equal throughout) re-instantiates the wrapped
\* component: a render pass that runs returns the cached element, and the
\* cached element stays the same object.
C1_PureQuietKeepsRenderedOutput ==
    [][(pure /\ quiet /\ StepQuiet)
         => /\ this'.renderedElement = this.renderedElement
            /\ log'.render \in {"none", "cached"}]_vars

\* A render pass scheduled by such a change event (the state object 2 carries
\* the count of the initial state object 0) returned the cached element.
C1_Witness ==
    /\ pure /\ wasQuiet /\ phase = "mounted"
    /\ log.op = "flushState" /\ log.render = "cached"
    /\ this.storeState.ref = 2
    /\ this.renderedElement # None /\ this.renderedElement[1].stateProps[1].count = 0

\* C2: for a mounted, subscribed pure connector whose established mapper has
\* arity 1, own props fixed, a render pass re-instantiates the wrapped
\* component if and only if the derived props for the data source's state
\* are not shallow-equal to the derived props the previous rendered output
\* was made from, whatever change events came before the pass.
C2_RerenderIffDerivedPropsDiffer ==
    [][(/\ pure /\ phase = "mounted" /\ this.unsubscribe # None
        /\ this.finalMapStateToProps # None /\ this.finalMapStateToProps[1].length = 1
        /\ this.renderedElement # None
        /\ this.version = version
        /\ this'.props = this.props
        /\ log'.render \in {"new", "cached"})
         => (log'.render = "new"
               <=> ~shallowEqual(DerivedProps(stores'[this.store].state, this.props),
                                 this.renderedElement[1].stateProps[1]))]_vars

\* C3, as claimed: in non-pure mode the render pass of a mounted, subscribed
\* connector that follows an own-props update, or a change event that brought
\* a new state object, re-instantiates the wrapped component (no mapper
\* throwing in the pass).
C3_NonPureAlwaysReinstantiates ==
    [][(/\ ~pure /\ phase = "mounted" /\ this.unsubscribe # None
        /\ \/ log'.op = "receiveProps"
           \/ /\ log'.op = "flushState"
              /\ pendingState # None /\ pendingState[1].ref # this.storeState.ref
        /\ log'.thrown = None)
         => log'.render = "new"]_vars

\* C3, amended: in non-pure mode every change event of the instance's data
\* source queues a render pass and every queued pass and own-props update runs
\* one; the pass of an own-props update re-instantiates the wrapped component,
\* the pass that follows change events alone returns the cached element exactly
\* when the recomputed derived props are shallow-equal to the cached ones (and
\* no live reload cleared the cache), and re-instantiates otherwise.
C3_NonPureRerendersUnlessDerivedPropsEqual ==
    [][(~pure /\ phase = "mounted" /\ this.unsubscribe # None)
         => /\ (log'.op = "change" /\ log'.source = this.store)
                 => (log'.setState /\ pendingState' = Some(stores'[this.store].state))
            /\ log'.op \in {"flushState", "receiveProps"} => log'.render # "none"
            /\ (log'.op = "receiveProps" /\ log'.thrown = None) => log'.render = "new"
            /\ (log'.op = "flushState" /\ log'.thrown = None)
                 => (log'.render = "cached"
                       <=> /\ this.version = version
                           /\ this.renderedElement # None
                           /\ this.stateProps # None
                           /\ shallowEqual(DerivedProps(stores[this.store].state, this.props),
                                           this.stateProps[1]))]_vars

\* A non-pure connector's render pass after a change event returned the cached
\* element; and an own-props update with shallow-equal props re-instantiated.
C3_Witness ==
    /\ ~pure /\ phase = "mounted"
    /\ log.op = "flushState" /\ log.render = "cached"
    /\ this.storeState.ref = 2

\* C4: in factory mode, while no live reload has been reconciled and no mapper
\* has thrown, the user's mapper is invoked exactly once, by the first render
\* pass; it establishes the returned inner mapper, and every recomputation
\* after that invokes the inner mapper only.
IsFactory == mapStateToProps # None /\ mapStateToProps[1].returnsFn

C4_FactoryInvokedOnce ==
    (IsFactory /\ this.version = 0 /\ ~counts.threw)
      => /\ counts.outer <= 1
         /\ phase \in {"rendered", "mounted", "unmounted"} => counts.outer = 1
         /\ phase \in {"rendered", "mounted"}
              => this.finalMapStateToProps = Some(InnerOf(mapStateToProps[1]))
         /\ \A i \in 1..Len(log.calls) :
              log.calls[i].fn = "mapStateToProps" => (i = 1 /\ log.op = "render")

\* A later render pass recomputed the derived props with the inner mapper.
C4_Witness ==
    /\ IsFactory /\ this.version = 0 /\ ~counts.threw /\ counts.outer = 1
    /\ log.op = "flushState" /\ log.render = "new"
    /\ Len(log.calls) = 1 /\ log.calls[1].fn = "inner"

\* C5: the instance has at most one change handler registered, on its own data
\* source and only while mounted; trySubscribe on a subscribed instance and
\* tryUnsubscribe on an unsubscribed one change nothing; a registered handler
\* is removed once, by the unmount.
C5_AtMostOneSubscription ==
    /\ Cardinality(stores[PropFlux].listeners) + Cardinality(stores[ContextFlux].listeners) <= 1
    /\ \A id \in StoreIds :
         stores[id].listeners # {}
           => /\ phase = "mounted" /\ id = this.store
              /\ this.unsubscribe # None /\ stores[id].listeners = {this.unsubscribe[1]}
    /\ this.unsubscribe # None => stores[this.store].listeners # {}
    /\ (phase = "mounted" /\ shouldSubscribe) => this.unsubscribe # None
    /\ this.unsubscribe # None => trySubscribe(World) = Result(World, "undefined", None)
    /\ (this.unsubscribe = None /\ phase # "none") => tryUnsubscribe(World) = World
    /\ counts.on <= 1 /\ counts.off <= counts.on
    /\ phase = "mounted" => counts.off = 0
    /\ phase = "unmounted" => counts.off = counts.on

\* An instance that went through a live-reload reconciliation (trySubscribe on
\* a subscribed instance) was unmounted: one handler registered, one removed.
C5_Witness ==
    /\ phase = "unmounted" /\ this.version = 1
    /\ counts.on = 1 /\ counts.off = 1
    /\ this.unsubscribe = None

\* What C6 says of one step, but for the live reload: the change handler (on
\* an event and on mount) lets no error escape; a mapper error thrown in it is
\* captured, the pass is queued; a render pass with a captured error raises
\* that error, empties the slot and calls no mapper; a pass that starts with an
\* empty slot raises a mapper's error only when a mapper throws it during that
\* pass.
C6_Captures ==
    (log'.op \in {"change", "componentDidMount", "lateChange"} => log'.err = None)
    /\ ((log'.op \in {"change", "componentDidMount"} /\ log'.thrown # None)
          => /\ pure /\ ~this.doStatePropsDependOnOwnProps
             /\ log'.setState /\ pendingState' # None
             /\ this'.statePropsPrecalculationError = log'.thrown
             /\ this'.haveStatePropsBeenPrecalculated)

C6_RaisesOnce ==
    (log'.render = "threw" /\ this.statePropsPrecalculationError = None
       /\ log'.err = Some(MapperError))
      => log'.thrown = log'.err /\ log'.calls # <<>>

C6_Raises ==
    (this.statePropsPrecalculationError # None /\ log'.render # "none")
      => /\ log'.render = "threw"
         /\ log'.err = this.statePropsPrecalculationError
         /\ log'.calls = <<>>
         /\ this'.statePropsPrecalculationError = None

\* While an error is captured the instance is mounted with a render pass queued
\* that shouldComponentUpdate lets through.
C6_Pending ==
    this.statePropsPrecalculationError # None
      => phase = "mounted" /\ pendingState # None /\ shouldComponentUpdate(World)

\* C6, as claimed: a mapper error thrown in the change handler's eager
\* recomputation does not escape the handler, a render pass is queued, and the
\* next render pass raises the captured error, which is raised by that one pass
\* only.
C6_CapturedErrorRaisedByNextRender ==
    [](C6_Pending) /\ [][C6_Captures /\ C6_RaisesOnce /\ C6_Raises]_vars

\* C6, amended: the same, the next render pass raising the captured error
\* unless a live reload is reconciled by that pass's pre-update hook, which
\* clears the cache and with it the captured error.
C6_CapturedErrorRaisedUnlessReloaded ==
    [](C6_Pending)
    /\ [][/\ C6_Captures
          /\ C6_RaisesOnce
          /\ this.version = version => C6_Raises
          /\ (this.version # version /\ this.statePropsPrecalculationError # None
                /\ log'.render # "none")
               => (log'.clearCache = "subscribed" /\ log'.err = log'.thrown)]_vars

\* A render pass has just raised an error the change handler captured.
C6_Witness ==
    /\ log.op = "flushState" /\ log.render = "threw" /\ log.calls = <<>>
    /\ log.err = Some(MapperError) /\ errorObject = Some(MapperError)
    /\ this.statePropsPrecalculationError = None

\* C7: the props of a newly made element carry, for every key, the own-props
\* value when the own props have the key, and the derived-props value when
\* only the derived props have it.
C7_OwnPropsTakePrecedence ==
    log.render = "new"
      => LET element == this.renderedElement[1].props
             derived == IF this.stateProps = None THEN {} ELSE KeysOf(this.stateProps[1])
             own == KeysOf(this.props)
         IN  /\ \A k \in own : element[k] = this.props[k]
             /\ \A k \in derived \ own : element[k] = this.stateProps[1][k]
             /\ KeysOf(element) = own \cup derived

\* An element made from own props and derived props that both have `count`.
C7_Witness ==
    /\ log.render = "new"
    /\ this.props.count = 9 /\ this.stateProps[1].count = 1
    /\ this.stateProps[1].sel = 1
    /\ this.renderedElement[1].props = Obj(9, 1, 1, Absent)

\* C8: the constructor fails with an invariant violation exactly when neither
\* props.flux nor context.flux is given; otherwise the instance uses props.flux
\* when given and context.flux when not, holds that data source's state, and
\* starts with derived props unset and both changed flags set.
C8_ConstructorResolvesStore ==
    log.op = "constructor"
      => /\ log.err # None <=> (flux = Absent /\ context = None)
         /\ log.err # None => (log.err = Some(InvariantViolation) /\ phase = "failed")
         /\ log.err = None
              => /\ phase = "constructed"
                 /\ this.store = IF flux # Absent THEN flux ELSE context[1]
                 /\ this.storeState = stores[this.store].state
                 /\ this.stateProps = None /\ this.renderedElement = None
                 /\ this.haveOwnPropsChanged /\ this.hasStoreStateChanged
                 /\ this.unsubscribe = None

\* Constructed with both data sources given: the explicit prop was taken.
C8_Witness ==
    /\ log.op = "constructor" /\ log.err = None
    /\ flux = PropFlux /\ context = Some(ContextFlux)
    /\ this.store = PropFlux /\ this.storeState = StateOf(1)

\* C9: getWrappedInstance fails with an invariant violation in every state of
\* an instance of a connector configured without withRef, and returns in every
\* state of one configured with it.
C9_GetWrappedInstanceNeedsWithRef ==
    /\ phase \notin {"none", "failed"}
         => getWrappedInstance(World).err = IF withRef THEN None ELSE Some(InvariantViolation)
    /\ log.op = "getWrappedInstance"
         => log.err = IF withRef THEN None ELSE Some(InvariantViolation)

\* The method was called on a mounted instance without withRef and failed.
C9_Witness ==
    /\ log.op = "getWrappedInstance" /\ phase = "mounted"
    /\ ~withRef /\ log.err = Some(InvariantViolation)

\* C10, as claimed: whenever clearCache runs after the constructor's call (on
\* unmount or on live-reload reconciliation), the instance holds no
\* subscription.
C10_ClearCacheAfterUnsubscribe ==
    (log.op # "constructor" /\ log.clearCache # "none") => log.clearCache = "unsubscribed"

\* C10, amended: the clearCache of an unmount runs after the unsubscription;
\* the clearCache of a live-reload reconciliation runs with the instance's
\* subscription still active, and leaves it active.
C10_OnlyUnmountUnsubscribesBeforeClearCache ==
    /\ log.op = "componentWillUnmount"
         => (log.clearCache = "unsubscribed" /\ stores[this.store].listeners = {})
    /\ (log.op \in {"flushState", "receiveProps"} /\ log.clearCache # "none")
         => /\ log.clearCache = "subscribed"
            /\ this.version = version
            /\ this.unsubscribe # None /\ stores[this.store].listeners # {}
    /\ log.op \notin {"constructor", "componentWillUnmount", "flushState", "receiveProps"}
         => log.clearCache = "none"

\* A live-reload reconciliation cleared the cache of a subscribed instance.
C10_Witness ==
    /\ log.op = "flushState" /\ log.clearCache = "subscribed"
    /\ this.version = 1 /\ this.unsubscribe # None

\* The data source's state is not the object the instance holds as its state.
StoreMoved == stores[this.store].state.ref # this.storeState.ref

\* C11, as claimed: componentDidMount of a connector with a mapper registers a
\* change handler and invokes the mapper once, in pure and non-pure mode and
\* whatever the data source's state.
C11_MountRecomputesOnce ==
    log.op = "componentDidMount"
      => /\ this.unsubscribe # None /\ stores[this.store].listeners = {this.unsubscribe[1]}
         /\ Len(log.calls) = 1

\* C11, amended: componentDidMount registers one change handler and calls it
\* once, no error escaping. The mapper is invoked (once, with the state only)
\* exactly when the connector is pure, the established mapper does not depend
\* on own props and the data source's state is not the state object captured
\* at construction. A render pass is queued in non-pure mode always, and in
\* pure mode when the state object differs and the mapper depends on own
\* props, threw, or gave derived props not shallow-equal to the rendered ones;
\* state-changed is set exactly when a pass is queued.
C11_MountSubscribesAndHandlesChange ==
    log.op = "componentDidMount"
      => LET eager == pure /\ ~this.doStatePropsDependOnOwnProps /\ StoreMoved
             rendered == this.renderedElement[1].stateProps
         IN  /\ this.unsubscribe # None /\ stores[this.store].listeners = {this.unsubscribe[1]}
             /\ counts.on = 1 /\ counts.off = 0
             /\ log.err = None
             /\ log.calls = IF eager
                            THEN <<[fn |-> this.finalMapStateToProps[1].name, withProps |-> FALSE]>>
                            ELSE <<>>
             /\ log.setState
                  <=> \/ ~pure
                      \/ StoreMoved /\ this.doStatePropsDependOnOwnProps
                      \/ eager /\ (log.thrown # None \/ this.stateProps # rendered)
             /\ log.setState => (pendingState = Some(stores[this.store].state)
                                   /\ this.hasStoreStateChanged)
             /\ ~log.setState => (pendingState = None /\ ~this.hasStoreStateChanged)
             /\ this.haveStatePropsBeenPrecalculated <=> (eager /\ log.setState)

\* A non-pure connector was mounted on a data source whose state had changed
\* since construction: a pass was queued and no mapper invoked.
C11_Witness ==
    /\ log.op = "componentDidMount" /\ ~pure /\ StoreMoved
    /\ this.unsubscribe # None /\ log.calls = <<>> /\ log.setState

\* The instance holds no subscription and its cache is as clearCache leaves it.
C12_TornDown ==
    /\ this.unsubscribe = None /\ stores[this.store].listeners = {}
    /\ this.stateProps = None /\ this.renderedElement = None
    /\ this.finalMapStateToProps = None
    /\ this.haveOwnPropsChanged /\ this.hasStoreStateChanged
    /\ ~this.haveStatePropsBeenPrecalculated
    /\ this.statePropsPrecalculationError = None
    /\ pendingState = None

\* C12: after componentWillUnmount the instance holds no subscription and its
\* cached fields are at the values clearCache gives them; a change event of
\* its data source, and a change event delivered to its removed handler,
\* invokes no mapper, changes no field of the instance, queues no render pass
\* and lets no error escape.
C12_UnmountedInstanceIgnoresChange ==
    /\ [](phase = "unmounted" => C12_TornDown)
    /\ [][(phase = "unmounted" /\ log'.op \in {"change", "lateChange"})
            => /\ this' = this
               /\ pendingState' = pendingState /\ ~log'.setState
               /\ log'.calls = <<>> /\ log'.err = None
               /\ errorObject' = errorObject]_vars

\* A late change event reached the handler of an unmounted instance whose data
\* source had taken another state after the unmount.
C12_Witness ==
    /\ phase = "unmounted" /\ log.op = "lateChange"
    /\ StoreMoved /\ counts.off = 1
    /\ this.stateProps = None /\ pendingState = None

\* The two cases of C13, of the step of a change event: the data source's new
\* state is the object the instance holds as its state; the established mapper
\* does not depend on own props and gives, for the new state, derived props
\* shallow-equal to the cached ones.
C13_SameStateObject == stores'[this.store].state.ref = this.storeState.ref

C13_SameDerivedProps ==
    /\ mapStateToProps # None
    /\ ~this.doStatePropsDependOnOwnProps
    /\ this.stateProps # None
    /\ ~stores'[this.store].state.throws
    /\ shallowEqual(DerivedProps(stores'[this.store].state, this.props), this.stateProps[1])

\* C13: in pure mode a change event in either case changes no field of the
\* instance, queues no render pass and lets no error escape; in the first case
\* it invokes no mapper.
C13_PureChangeIsNoOp ==
    [][(pure /\ log'.op = "change" /\ (C13_SameStateObject \/ C13_SameDerivedProps))
         => /\ this' = this
            /\ pendingState' = pendingState /\ ~log'.setState
            /\ log'.err = None /\ log'.thrown = None
            /\ C13_SameStateObject => log'.calls = <<>>]_vars

\* A subscribed pure instance handled a change event with a new state object:
\* it invoked the mapper, found the derived props shallow-equal and queued
\* nothing.
C13_Witness ==
    /\ pure /\ phase = "mounted" /\ log.op = "change" /\ log.source = this.store
    /\ StoreMoved /\ Len(log.calls) = 1 /\ log.thrown = None
    /\ ~log.setState /\ pendingState = None
    /\ ~this.hasStoreStateChanged /\ ~this.haveStatePropsBeenPrecalculated

\* own-props-changed as render finds it in the pass of this step: set before
\* the step, or set by componentWillReceiveProps in it.
C14_OwnPropsChangedAtRender ==
    \/ this.haveOwnPropsChanged
    \/ log'.op = "receiveProps" /\ (~pure \/ ~shallowEqual(this'.props, this.props))

\* C14: in pure mode, a render pass of an instance that has a rendered element
\* (and no live reload to reconcile, which would drop the element) invokes a
\* mapper exactly when the stateProps were not precalculated and state-changed
\* is set, or own-props-changed is set and the established mapper depends on
\* own props; it then invokes the established mapper once.
C14_RenderInvokesMapperIff ==
    [][(pure /\ this.renderedElement # None /\ this.version = version
          /\ log'.render # "none")
         => /\ log'.calls # <<>>
                 <=> /\ ~this.haveStatePropsBeenPrecalculated
                     /\ \/ this.hasStoreStateChanged
                        \/ C14_OwnPropsChangedAtRender /\ this.doStatePropsDependOnOwnProps
            /\ log'.calls # <<>>
                 => log'.calls = <<[fn |-> this.finalMapStateToProps[1].name,
                                    withProps |-> this.doStatePropsDependOnOwnProps]>>]_vars

\* A render pass after an eager recomputation made a new element from the
\* precalculated stateProps without invoking the mapper.
C14_Witness ==
    /\ pure /\ phase = "mounted" /\ this.version = 0
    /\ log.op = "flushState" /\ log.render = "new" /\ log.calls = <<>>
    /\ this.renderedElement[1].stateProps = this.stateProps

\* The flags and the error slot render clears.
C15_FlagsCleared ==
    /\ ~this.haveOwnPropsChanged /\ ~this.hasStoreStateChanged
    /\ ~this.haveStatePropsBeenPrecalculated
    /\ this.statePropsPrecalculationError = None

\* C15: after every render pass, whether it returned an element or raised an
\* error, own-props-changed, state-changed and the precalculated flag are
\* false and the error slot is empty; so in pure mode no update is due after
\* it, and an update with shallow-equal own props that follows it with no
\* live reload to reconcile runs no render pass.
C15_RenderClearsFlags ==
    /\ [](log.render # "none"
            => (C15_FlagsCleared /\ (pure => ~shouldComponentUpdate(World))))
    /\ [][(pure /\ log.render # "none" /\ log'.op = "receiveProps"
             /\ shallowEqual(this'.props, this.props))
            => (log'.render = "none" /\ log'.calls = <<>>)]_vars

\* A render pass raised an error the change handler had captured and left the
\* flags cleared.
C15_Witness ==
    /\ log.render = "threw" /\ log.calls = <<>> /\ log.err = Some(MapperError)
    /\ C15_FlagsCleared /\ phase = "mounted"

\* C16: componentWillReceiveProps sets own-props-changed exactly when the
\* connector is not pure or the next props are not shallow-equal to the current
\* ones. In pure mode an update with shallow-equal props and neither changed
\* flag set is skipped: no render pass, no mapper call, the rendered element
\* kept. In non-pure mode, or with props that are not shallow-equal, a render
\* pass runs and, when it raises no error, makes a new element.
C16_OwnPropsUpdate ==
    /\ [](phase = "mounted"
            => \A nextProps \in OwnPropsFor(flux) :
                 componentWillReceiveProps(World, nextProps).this.haveOwnPropsChanged
                   = (this.haveOwnPropsChanged \/ ~pure \/ ~shallowEqual(nextProps, this.props)))
    /\ [][log'.op = "receiveProps"
            => /\ (pure /\ shallowEqual(this'.props, this.props)
                     /\ ~this.haveOwnPropsChanged /\ ~this.hasStoreStateChanged)
                    => /\ ~shouldComponentUpdate(World)
                       /\ log'.render = "none" /\ log'.calls = <<>>
                       /\ ~this'.haveOwnPropsChanged
                       /\ this'.renderedElement = this.renderedElement
               /\ (~pure \/ ~shallowEqual(this'.props, this.props))
                    => /\ log'.render # "none"
                       /\ log'.err = None
                            => (log'.render = "new"
                                  /\ this'.renderedElement # this.renderedElement
                                  /\ this'.renderedElement[1].props
                                       = mergedProps(this'.stateProps, this'.props))]_vars

\* A pure instance received shallow-equal own props with no change pending:
\* the update was skipped.
C16_Witness ==
    /\ pure /\ phase = "mounted" /\ log.op = "receiveProps"
    /\ log.render = "none" /\ log.calls = <<>>
    /\ this.renderedElement # None /\ ~this.haveOwnPropsChanged

\* The established mapper is the user's mapper, or in factory mode the function
\* it returned, and depends-on-own-props is: its length is not 1.
C17_Established ==
    this.finalMapStateToProps # None
      => /\ this.finalMapStateToProps[1]
              = IF mapStateToProps[1].returnsFn THEN InnerOf(mapStateToProps[1])
                ELSE mapStateToProps[1]
         /\ this.doStatePropsDependOnOwnProps = (this.finalMapStateToProps[1].length # 1)

\* C17, as claimed: every invocation of the established mapper passes the
\* state only when its length is 1, and the state and the own props when it is
\* not.
C17_ArityDecidesEveryCall ==
    [][\A i \in 1..Len(log'.calls) :
         (this'.finalMapStateToProps # None
            /\ log'.calls[i].fn = this'.finalMapStateToProps[1].name)
           => log'.calls[i].withProps = (this'.finalMapStateToProps[1].length # 1)]_vars

\* C17, amended: the invocation that establishes the mapper (the first of a
\* step that starts with no established mapper or clears the cache) is of the
\* user's mapper, with the state and the own props whatever its length; every
\* other invocation is of the established mapper, with the state only when
\* its length is 1 and with the state and the own props when it is not; in
\* factory mode the established mapper is the returned function and the length
\* is its length.
C17_ArityDecidesLaterCalls ==
    /\ [](C17_Established)
    /\ [][\A i \in 1..Len(log'.calls) :
            IF i = 1 /\ (this.finalMapStateToProps = None \/ log'.clearCache # "none")
            THEN log'.calls[i] = [fn |-> "mapStateToProps", withProps |-> TRUE]
            ELSE /\ this'.finalMapStateToProps # None
                 /\ log'.calls[i].fn = this'.finalMapStateToProps[1].name
                 /\ log'.calls[i].withProps = (this'.finalMapStateToProps[1].length # 1)]_vars

\* A factory of length 1 returned a mapper of length 2: a later render pass
\* invoked the returned mapper with the state and the own props.
C17_Witness ==
    /\ mapStateToProps # None /\ mapStateToProps[1].returnsFn /\ mapStateToProps[1].length = 1
    /\ log.op = "flushState" /\ log.render = "new"
    /\ log.calls = <<[fn |-> "inner", withProps |-> TRUE]>>
    /\ this.doStatePropsDependOnOwnProps

\* A step whose update runs componentWillUpdate on an instance that recorded
\* another version than the connector's.
C18_Reconciles ==
    /\ phase = "mounted" /\ this.version # version
    /\ log'.op \in {"receiveProps", "flushState"} /\ log'.render # "none"

\* C18, as claimed: the reconciliation removes the instance's change handler
\* and registers a new one, leaving one subscription.
C18_ReloadReplacesHandler ==
    [][C18_Reconciles
         => /\ this'.version = version
            /\ counts'.off = counts.off + 1 /\ counts'.on = counts.on + 1
            /\ this'.unsubscribe # this.unsubscribe
            /\ stores'[this.store].listeners = {this'.unsubscribe[1]}]_vars

\* C18, amended: componentWillUpdate changes nothing when the instance's
\* version is the connector's; when it is not, the instance records the
\* connector's version, its cache is cleared, and its subscription is left as
\* it is: no handler removed, none registered, the one registered at mount
\* still the only one. The render pass of the same update establishes the
\* mapper again, invoking the user's mapper first, and makes a new element
\* when it raises no error.
C18_ReloadKeepsHandlerClearsCache ==
    /\ [](phase = "mounted"
            => /\ this.unsubscribe # None
               /\ componentWillUpdate(World)
                    = IF this.version = version THEN Result(World, "undefined", None)
                      ELSE Result([World EXCEPT
                                     !.this.version = version,
                                     !.this.stateProps = None,
                                     !.this.haveOwnPropsChanged = TRUE,
                                     !.this.hasStoreStateChanged = TRUE,
                                     !.this.haveStatePropsBeenPrecalculated = FALSE,
                                     !.this.statePropsPrecalculationError = None,
                                     !.this.renderedElement = None,
                                     !.this.finalMapStateToProps = None,
                                     !.log.clearCache = "subscribed"],
                                  "undefined", None))
    /\ [][/\ C18_Reconciles
               => /\ this'.version = version
                  /\ this'.unsubscribe = this.unsubscribe
                  /\ stores'[this.store].listeners = {this.unsubscribe[1]}
                  /\ counts'.on = counts.on /\ counts'.off = counts.off
                  /\ log'.clearCache = "subscribed"
                  /\ log'.calls # <<>>
                  /\ log'.calls[1] = [fn |-> "mapStateToProps", withProps |-> TRUE]
                  /\ log'.err = None
                       => (log'.render = "new" /\ this'.finalMapStateToProps # None)
          /\ (phase = "mounted" /\ this.version = version
                /\ log'.op \in {"receiveProps", "flushState"})
               => (this'.version = this.version /\ log'.clearCache = "none")]_vars

\* An update of a mounted instance reconciled a live reload: same handler,
\* cache cleared, mapper established again, new element.
C18_Witness ==
    /\ phase = "mounted" /\ log.op = "receiveProps" /\ log.clearCache = "subscribed"
    /\ this.version = 1 /\ counts.on = 1 /\ counts.off = 0
    /\ this.unsubscribe = Some(1)
    /\ log.render = "new" /\ log.calls[1].fn = "mapStateToProps"

\* Every emitted change event has been handled (each step handles its own) and
\* no render pass is queued, on a mounted, subscribed instance that has
\* rendered and whose mapper has not thrown and does not throw on the data
\* source's state.
C19_Quiescent ==
    /\ phase = "mounted" /\ this.unsubscribe # None
    /\ pendingState = None
    /\ this.renderedElement # None /\ this.renderedElement[1].stateProps # None
    /\ ~counts.threw /\ ~stores[this.store].state.throws

\* C19: in every quiescent state the derived props of the last rendered
\* element are shallow-equal to what the mapper gives for the data source's
\* current state and the current own props.
C19_QuiescentConsistency ==
    C19_Quiescent
      => shallowEqual(this.renderedElement[1].stateProps[1],
                      DerivedProps(stores[this.store].state, this.props))

\* The same in non-pure mode, where handleChange drops no event and render
\* always recomputes.
C19_ConsistentWhenNotPure ==
    (C19_Quiescent /\ ~pure)
      => shallowEqual(this.renderedElement[1].stateProps[1],
                      DerivedProps(stores[this.store].state, this.props))

\* The case C19 names, which does not hold: the data source went S0 -> S1 ->
\* S0 before the pass queued for S1 ran, and that pass made its element from
\* the stateProps handleChange precalculated for S1.
C19_ConsistentAfterPrecalculatedPass ==
    (C19_Quiescent /\ this.version = 0
       /\ log.op = "flushState" /\ log.render = "new" /\ log.calls = <<>>)
      => shallowEqual(this.renderedElement[1].stateProps[1],
                      DerivedProps(stores[this.store].state, this.props))

====
